---- MODULE Spec2Model ----
(***************************************************************************)
(* Model of mmdet/models/backbones/scarlet.py: the ScarletBase backbone    *)
(* assembly engine, the InvertedResidual block and the presets ScarletA,   *)
(* ScarletB and ScarletC.                                                  *)
(*                                                                         *)
(* A tensor is a node of the computation graph of one forward pass: the    *)
(* operation that produced it, the nodes it was computed from and its      *)
(* shape (channels, height, width; the batch dimension is 1 throughout).   *)
(* Two tensors are the same tensor iff they are the same node.             *)
(***************************************************************************)
EXTENDS Integers, Sequences, FiniteSets, TLC

VARIABLES
    preset,         \* "A", "B", "C": the preset class; "base": ScarletBase called directly
    mb_config,      \* constructor argument mb_config
    input_channel,  \* constructor argument input_channel
    last_channel,   \* constructor argument last_channel
    pc,             \* "new", "built", "failed" (constructor raised),
                    \* "loop", "exec" (inside forward), "done", "error" (forward raised)
    block_names,    \* self.block_names
    modules,        \* the modules registered by __setattr__, by configuration index
    cbp,            \* self.conv_before_pooling: its input and output channels
    graph,          \* the tensors of the current forward pass
    x,              \* forward's local x: a node of graph (0: none)
    skips,          \* forward's local skips: a sequence of nodes of graph
    i               \* position of forward's loop in block_names (1-based)

vars == <<preset, mb_config, input_channel, last_channel, pc, block_names,
          modules, cbp, graph, x, skips, i>>

---------------------------------------------------------------------------
(* Bounds of the model *)

\* longest configuration list passed to ScarletBase directly
MaxLen == 2

(* Program constants *)

StemIn == 3
StemOut == 32
SepOut == 16
SEReduction == 4
PresetInputChannel == 16
PresetLastChannel == 1280

---------------------------------------------------------------------------
(* Configuration entries *)

\* the "identity" sentinel of a configuration list
Ident == [id |-> TRUE, t |-> 0, c |-> 0, k |-> 0, s |-> 0, e |-> FALSE]

\* a list entry [expansion, out_channel, kernel_size, stride, se]
B(t, c, k, s, e) == [id |-> FALSE, t |-> t, c |-> c, k |-> k, s |-> s, e |-> e]

ScarletA_config ==
    << B(3, 32, 7, 2, FALSE), B(6, 32, 5, 1, FALSE), B(3, 40, 5, 2, FALSE),
       B(3, 40, 7, 1, TRUE),  B(6, 40, 3, 1, TRUE),  B(3, 40, 5, 1, TRUE),
       B(6, 80, 3, 2, TRUE),  B(3, 80, 3, 1, FALSE), B(3, 80, 7, 1, TRUE),
       B(3, 80, 7, 1, FALSE), B(3, 96, 5, 1, FALSE), B(3, 96, 7, 1, TRUE),
       B(3, 96, 3, 1, FALSE), B(3, 96, 7, 1, TRUE),  B(6, 192, 3, 2, TRUE),
       B(6, 192, 5, 1, TRUE), B(3, 192, 3, 1, TRUE), B(6, 192, 3, 1, TRUE),
       B(6, 320, 7, 1, TRUE) >>

ScarletB_config ==
    << B(3, 32, 3, 2, TRUE),  B(3, 32, 5, 1, TRUE),  B(3, 40, 3, 2, TRUE),
       B(6, 40, 7, 1, TRUE),  B(3, 40, 3, 1, FALSE), B(3, 40, 5, 1, FALSE),
       B(6, 80, 7, 2, TRUE),  B(3, 80, 3, 1, TRUE),  Ident,
       B(3, 80, 5, 1, FALSE), B(3, 96, 3, 1, TRUE),  B(3, 96, 3, 1, TRUE),
       B(6, 96, 7, 1, TRUE),  B(3, 96, 3, 1, TRUE),  B(6, 192, 5, 2, TRUE),
       B(6, 192, 5, 1, TRUE), Ident,                 B(6, 192, 7, 1, TRUE),
       B(6, 320, 5, 1, TRUE) >>

ScarletC_config ==
    << B(3, 32, 5, 2, TRUE),  B(3, 32, 3, 1, TRUE),  B(3, 40, 5, 2, TRUE),
       Ident,                 Ident,                 B(3, 40, 3, 1, FALSE),
       B(6, 80, 7, 2, TRUE),  B(3, 80, 3, 1, TRUE),  B(3, 80, 3, 1, TRUE),
       B(3, 80, 5, 1, FALSE), B(3, 96, 7, 1, TRUE),  B(3, 96, 7, 1, FALSE),
       B(3, 96, 3, 1, TRUE),  B(3, 96, 7, 1, TRUE),  B(3, 192, 3, 2, TRUE),
       Ident,                 B(6, 192, 3, 1, TRUE), B(6, 192, 7, 1, TRUE),
       B(6, 320, 5, 1, TRUE) >>

\* the entries a directly passed configuration list is drawn from
BaseExpansions == {3}
BaseChannels == {16, 32}
BaseKernels == {0, 3, 4}
BaseStrides == {1, 2, 3}
BaseEntries ==
    {Ident} \cup
    { B(t, c, k, s, e) : t \in BaseExpansions, c \in BaseChannels, k \in BaseKernels,
                         s \in BaseStrides, e \in BOOLEAN }
BaseInputChannels == {16, 32}
BaseLastChannels == {64}

\* the images a forward pass is run on: <<height, width>>
ImageSizes == { <<224, 224>>, <<100, 100>>, <<29, 32>> }

---------------------------------------------------------------------------
(* Shapes *)

\* variant: the padding is left out of the size
ConvOut_NoPad(n, k, s, p) == ((n - k) \div s) + 1

\* output size of nn.Conv2d along one spatial dimension (dilation 1)
ConvOut(n, k, s, p) == ((n + 2 * p - k) \div s) + 1

\* nn.Conv2d raises when the kernel is larger than the padded input
ConvFits(n, k, p) == n + 2 * p >= k

\* size along one dimension of the broadcast of a + b (0: not broadcastable)
Broadcast(a, b) == IF a = b THEN a ELSE IF a = 1 THEN b ELSE IF b = 1 THEN a ELSE 0

Node(op, a, b, blk, c, h, w) ==
    [op |-> op, a |-> a, b |-> b, blk |-> blk, c |-> c, h |-> h, w |-> w]

---------------------------------------------------------------------------
(* InvertedResidual *)

\* variant: any positive stride passes
StrideAccepted_Positive(stride) == stride >= 1

\* assert stride in [1, 2]
StrideAccepted(stride) == stride \in {1, 2}

\* padding = kernel_size // 2
Padding(kernel_size) == kernel_size \div 2

\* hidden_dim = round(inp * expand_ratio), for the integer ratios of the tables
HiddenDim(inp, expand_ratio) == inp * expand_ratio

\* variant: the channel counts are not compared
UseResConnect_StrideOnly(stride, inp, oup) == stride = 1

\* self.use_res_connect = self.stride == 1 and inp == oup
UseResConnect(stride, inp, oup) == stride = 1 /\ inp = oup

\* SqueezeExcite.__init__: the width of the squeeze convolution
SqueezeWidth(in_channel) == in_channel \div SEReduction

\* the module InvertedResidual.__init__ builds
InvertedResidual(inp, oup, kernel_size, stride, expand_ratio, is_use_se) ==
    [ kind |-> "InvertedResidual",
      inp |-> inp,
      oup |-> oup,
      kernel_size |-> kernel_size,
      stride |-> stride,
      padding |-> Padding(kernel_size),
      hidden_dim |-> HiddenDim(inp, expand_ratio),
      use_res_connect |-> UseResConnect(stride, inp, oup),
      is_use_se |-> is_use_se,
      se_width |-> IF is_use_se THEN SqueezeWidth(HiddenDim(inp, expand_ratio)) ELSE 0 ]

\* the module Identity.__init__ builds
Identity ==
    [ kind |-> "Identity", inp |-> 0, oup |-> 0, kernel_size |-> 0, stride |-> 0,
      padding |-> 0, hidden_dim |-> 0, use_res_connect |-> FALSE,
      is_use_se |-> FALSE, se_width |-> 0 ]

\* InvertedResidual.forward on tensor xid of graph g: the new graph and the
\* returned tensor, or ok = FALSE when a primitive raises
InvertedResidualForward(m, idx, g, xid) ==
    LET xin == g[xid]
        h2  == ConvOut(xin.h, m.kernel_size, m.stride, m.padding)
        w2  == ConvOut(xin.w, m.kernel_size, m.stride, m.padding)
        rid == Len(g) + 1
        g1  == Append(g, Node("result", xid, 0, idx, m.oup, h2, w2))
        bc  == Broadcast(xin.c, m.oup)
        bh  == Broadcast(xin.h, h2)
        bw  == Broadcast(xin.w, w2)
    IN  IF xin.c # m.inp                                   \* conv1: channel mismatch
          \/ ~ConvFits(xin.h, m.kernel_size, m.padding)    \* conv2: kernel too large
          \/ ~ConvFits(xin.w, m.kernel_size, m.padding)
        THEN [ok |-> FALSE, graph |-> g, x |-> xid]
        ELSE IF m.use_res_connect
             THEN IF bc = 0 \/ bh = 0 \/ bw = 0                     \* inputs + x: shapes differ
                  THEN [ok |-> FALSE, graph |-> g1, x |-> rid]
                  ELSE [ok |-> TRUE,
                        graph |-> Append(g1, Node("add", xid, rid, idx, bc, bh, bw)),
                        x |-> rid + 1]
             ELSE [ok |-> TRUE, graph |-> g1, x |-> rid]

\* variant: the block returns a copy of its input
IdentityForward_Copy(g, xid) ==
    [ok |-> TRUE,
     graph |-> Append(g, Node("copy", xid, 0, -1, g[xid].c, g[xid].h, g[xid].w)),
     x |-> Len(g) + 1]

\* Identity.forward: the tensor it is given
IdentityForward(g, xid) == [ok |-> TRUE, graph |-> g, x |-> xid]

\* self.__getattr__(block_name)(x)
ModuleForward(m, idx, g, xid) ==
    IF m.kind = "Identity" THEN IdentityForward(g, xid)
    ELSE InvertedResidualForward(m, idx, g, xid)

---------------------------------------------------------------------------
(* ScarletBase.__init__ *)

IdentityName(idx) == [prefix |-> "identity", idx |-> idx]

\* variant: the two names are exchanged
BlockName_Swapped(idx, s) ==
    [prefix |-> IF s = 1 THEN "strided_block" ELSE "block", idx |-> idx]

\* block_name = f'block_{idx}' if s == 1 else f'strided_block_{idx}'
BlockName(idx, s) == [prefix |-> IF s = 1 THEN "block" ELSE "strided_block", idx |-> idx]

\* variant: the running channel count is never updated
NextInputChannel_Stale(input_ch, output_channel) == input_ch

\* input_channel = output_channel
NextInputChannel(input_ch, output_channel) == output_channel

\* the loop over enumerate(mb_config), from list position pos (idx = pos - 1)
\* with running channel count ch
RECURSIVE BuildBlocks(_, _, _, _, _)
BuildBlocks(cfg, pos, ch, names, mods) ==
    IF pos > Len(cfg)
    THEN [ok |-> TRUE, names |-> names, mods |-> mods, ch |-> ch]
    ELSE LET each_config == cfg[pos]
             idx == pos - 1
         IN  IF each_config.id
             THEN BuildBlocks(cfg, pos + 1, ch,
                              Append(names, IdentityName(idx)), Append(mods, Identity))
             ELSE IF ~StrideAccepted(each_config.s)
                  THEN [ok |-> FALSE, names |-> names, mods |-> mods, ch |-> ch]
                  ELSE BuildBlocks(cfg, pos + 1, NextInputChannel(ch, each_config.c),
                                   Append(names, BlockName(idx, each_config.s)),
                                   Append(mods,
                                          InvertedResidual(ch, each_config.c, each_config.k,
                                                           each_config.s, each_config.t,
                                                           each_config.e)))

\* _initialize_weights: n = kernel_size[0] * kernel_size[1] * out_channels
ConvInitN(kernel_size, out_channels) == kernel_size * kernel_size * out_channels

\* math.sqrt(2. / n) raises ZeroDivisionError for a convolution with n = 0
InitializeWeightsOK(mods, cbp_out) ==
    /\ ConvInitN(3, StemOut) # 0                             \* stem
    /\ ConvInitN(3, StemOut) # 0 /\ ConvInitN(1, SepOut) # 0  \* separable_conv
    /\ \A j \in 1..Len(mods) :
          mods[j].kind = "InvertedResidual" =>
             /\ ConvInitN(1, mods[j].hidden_dim) # 0
             /\ ConvInitN(mods[j].kernel_size, mods[j].hidden_dim) # 0
             /\ mods[j].is_use_se => ConvInitN(1, mods[j].se_width) # 0
             /\ ConvInitN(1, mods[j].oup) # 0
    /\ ConvInitN(1, cbp_out) # 0

Init ==
    /\ \/ /\ \/ preset = "A" /\ mb_config = ScarletA_config
             \/ preset = "B" /\ mb_config = ScarletB_config
             \/ preset = "C" /\ mb_config = ScarletC_config
          /\ input_channel = PresetInputChannel
          /\ last_channel = PresetLastChannel
       \/ /\ preset = "base"
          /\ \E n \in 0..MaxLen : mb_config \in [1..n -> BaseEntries]
          /\ input_channel \in BaseInputChannels
          /\ last_channel \in BaseLastChannels
    /\ pc = "new"
    /\ block_names = <<>>
    /\ modules = <<>>
    /\ cbp = [inp |-> 0, oup |-> 0]
    /\ graph = <<>>
    /\ x = 0
    /\ skips = <<>>
    /\ i = 0

Construct ==
    /\ pc = "new"
    /\ LET r == BuildBlocks(mb_config, 1, input_channel, <<>>, <<>>)
       IN  IF r.ok /\ InitializeWeightsOK(r.mods, last_channel)
           THEN /\ pc' = "built"
                /\ block_names' = r.names
                /\ modules' = r.mods
                /\ cbp' = [inp |-> r.ch, oup |-> last_channel]
           ELSE /\ pc' = "failed"
                /\ UNCHANGED <<block_names, modules, cbp>>
    /\ UNCHANGED <<preset, mb_config, input_channel, last_channel, graph, x, skips, i>>

---------------------------------------------------------------------------
(* ScarletBase.forward *)

\* the image given to forward
Image(hw) == Node("image", 0, 0, -1, StemIn, hw[1], hw[2])

\* variant: a stem of stride 1
StemForward_Stride1(g, xid) ==
    Append(g, Node("stem", xid, 0, -1, StemOut,
                   ConvOut(g[xid].h, 3, 1, 1), ConvOut(g[xid].w, 3, 1, 1)))

\* stem(3, 32, 2): Conv2d(3, 32, 3, 2, 1), BatchNorm2d, Mish
StemForward(g, xid) ==
    Append(g, Node("stem", xid, 0, -1, StemOut,
                   ConvOut(g[xid].h, 3, 2, 1), ConvOut(g[xid].w, 3, 2, 1)))

\* variant: the pointwise projection to 16 channels is missing
SeparableConvForward_NoProject(g, xid) ==
    Append(g, Node("separable_conv", xid, 0, -1, g[xid].c,
                   ConvOut(g[xid].h, 3, 1, 1), ConvOut(g[xid].w, 3, 1, 1)))

\* separable_conv(32, 16): Conv2d(32, 32, 3, 1, 1, groups=32), BatchNorm2d, Mish,
\* Conv2d(32, 16, 1, 1, 0), BatchNorm2d
SeparableConvForward(g, xid) ==
    Append(g, Node("separable_conv", xid, 0, -1, SepOut,
                   ConvOut(ConvOut(g[xid].h, 3, 1, 1), 1, 1, 0),
                   ConvOut(ConvOut(g[xid].w, 3, 1, 1), 1, 1, 0)))

\* conv_before_pooling(inp, oup): Conv2d(inp, oup, 1, 1, 0), BatchNorm2d, Mish
ConvBeforePoolingForward(m, g, xid) ==
    IF g[xid].c # m.inp
    THEN [ok |-> FALSE, graph |-> g, x |-> xid]
    ELSE [ok |-> TRUE,
          graph |-> Append(g, Node("conv_before_pooling", xid, 0, -1, m.oup,
                                   ConvOut(g[xid].h, 1, 1, 0), ConvOut(g[xid].w, 1, 1, 0))),
          x |-> Len(g) + 1]

\* variant: the name is tested for containing 'block'
StartsWithStrided_ContainsBlock(block_name) ==
    block_name.prefix \in {"block", "strided_block"}

\* block_name.startswith('strided')
StartsWithStrided(block_name) == block_name.prefix = "strided_block"

\* skips = []; x = self.stem(x); x = self.separable_conv(x)
ForwardBegin ==
    /\ pc \in {"built", "done", "error"}
    /\ \E hw \in ImageSizes :
          graph' = SeparableConvForward(StemForward(<<Image(hw)>>, 1), 2)
    /\ x' = 3
    /\ skips' = <<>>
    /\ i' = 1
    /\ pc' = "loop"
    /\ UNCHANGED <<preset, mb_config, input_channel, last_channel, block_names, modules, cbp>>

\* for block_name in self.block_names: if block_name.startswith('strided'): skips.append(x)
LoopTest ==
    /\ pc = "loop"
    /\ i <= Len(block_names)
    /\ skips' = IF StartsWithStrided(block_names[i]) THEN Append(skips, x) ELSE skips
    /\ pc' = "exec"
    /\ UNCHANGED <<preset, mb_config, input_channel, last_channel, block_names, modules,
                   cbp, graph, x, i>>

\* x = self.__getattr__(block_name)(x)
LoopExec ==
    /\ pc = "exec"
    /\ LET idx == block_names[i].idx
           r == ModuleForward(modules[idx + 1], idx, graph, x)
       IN  /\ graph' = r.graph
           /\ x' = r.x
           /\ pc' = IF r.ok THEN "loop" ELSE "error"
           /\ i' = IF r.ok THEN i + 1 ELSE i
    /\ UNCHANGED <<preset, mb_config, input_channel, last_channel, block_names, modules,
                   cbp, skips>>

\* x = self.conv_before_pooling(x); skips.append(x); return skips
ForwardEnd ==
    /\ pc = "loop"
    /\ i > Len(block_names)
    /\ LET r == ConvBeforePoolingForward(cbp, graph, x)
       IN  /\ graph' = r.graph
           /\ x' = r.x
           /\ skips' = IF r.ok THEN Append(skips, r.x) ELSE skips
           /\ pc' = IF r.ok THEN "done" ELSE "error"
    /\ UNCHANGED <<preset, mb_config, input_channel, last_channel, block_names, modules,
                   cbp, i>>

Next ==
    \/ Construct
    \/ ForwardBegin
    \/ LoopTest
    \/ LoopExec
    \/ ForwardEnd

Spec == Init /\ [][Next]_vars

TypeOK ==
    /\ pc \in {"new", "built", "failed", "loop", "exec", "done", "error"}
    /\ x \in 0..Len(graph)
    /\ \A j \in 1..Len(skips) : skips[j] \in 1..Len(graph)

---------------------------------------------------------------------------
(* Vocabulary of the properties, in terms of the constructor's arguments *)

\* positions of the non-identity entries of a configuration
RealEntries(cfg) == { j \in 1..Len(cfg) : ~cfg[j].id }

\* positions of the entries of stride 2
Stride2Entries(cfg) == { j \in RealEntries(cfg) : cfg[j].s = 2 }

\* channel count leaving the entries before position j
ChannelsBefore(cfg, ic, j) ==
    LET before == { q \in RealEntries(cfg) : q < j }
    IN  IF before = {} THEN ic
        ELSE cfg[CHOOSE q \in before : \A r \in before : r <= q].c

Constructed == pc \notin {"new", "failed"}
InForward == pc \in {"loop", "exec", "done", "error"}
On224 == InForward /\ graph[1].h = 224 /\ graph[1].w = 224
Shape(n) == <<graph[n].c, graph[n].h, graph[n].w>>

\* the entries whose test for a capture has run in the current forward pass
TestedThrough ==
    IF pc = "loop" THEN i - 1
    ELSE IF pc = "exec" THEN i
    ELSE IF pc = "error" THEN (IF i <= Len(mb_config) THEN i ELSE Len(mb_config))
    ELSE Len(mb_config)

\* the result nodes of the graph, and the one of the entry at position j
ResultNodes == { n \in 1..Len(graph) : graph[n].op = "result" }
ResultOf(j) == { n \in ResultNodes : graph[n].blk = j - 1 }

---------------------------------------------------------------------------
(* C1: the list one forward pass returns has as many entries as the         *)
(* configuration has entries of stride 2, plus one.                         *)
C1_PyramidLength ==
    pc = "done" => Len(skips) = Cardinality(Stride2Entries(mb_config)) + 1

C1_Witness ==
    /\ pc = "done" /\ preset = "base"
    /\ Cardinality(Stride2Entries(mb_config)) = 1
    /\ Cardinality(RealEntries(mb_config)) = 2

(* C2: every preset constructs, its forward pass on a 224 x 224 image       *)
(* raises nothing, and the last tensor of the pyramid is 1280 x 7 x 7.      *)
C2_PresetFinalShape ==
    preset # "base" =>
       /\ pc # "failed"
       /\ On224 => /\ pc # "error"
                   /\ pc = "done" => Shape(skips[Len(skips)]) = <<1280, 7, 7>>

C2_Witness == preset = "B" /\ pc = "done" /\ On224

(* C3: blocks run in construction order; the tensor captured for an entry   *)
(* of stride 2 is that block's input, captured before the block runs;       *)
(* nothing is captured for the other entries; the output of                 *)
(* conv_before_pooling is appended once, after the last block, and is last. *)
C3_CaptureOrder ==
    InForward =>
      LET strided == { q \in Stride2Entries(mb_config) : q <= TestedThrough }
          final == IF pc = "done" THEN 1 ELSE 0
          BlockOf(j) == CHOOSE q \in strided :
                           Cardinality({ r \in strided : r <= q }) = j
      IN  /\ Len(skips) = Cardinality(strided) + final
          /\ \A j \in 1..Cardinality(strided) :
                /\ pc = "exec" /\ i = BlockOf(j) => skips[j] = x
                /\ \A n \in ResultOf(BlockOf(j)) : graph[n].a = skips[j]
                /\ graph[skips[j]].op # "conv_before_pooling"
          /\ \A n, m \in ResultNodes : n < m => graph[n].blk < graph[m].blk
          /\ pc \in {"loop", "done"} =>
                { graph[n].blk + 1 : n \in ResultNodes }
                   = { q \in RealEntries(mb_config) : q < i }
          /\ pc = "done" =>
                /\ i = Len(mb_config) + 1
                /\ skips[Len(skips)] = Len(graph)
                /\ graph[Len(graph)].op = "conv_before_pooling"
                /\ \A n \in 1..(Len(graph) - 1) : graph[n].op # "conv_before_pooling"
                /\ \A n \in ResultNodes : n <= graph[Len(graph)].a
          /\ pc # "done" => \A n \in 1..Len(graph) : graph[n].op # "conv_before_pooling"

C3_Witness ==
    /\ pc = "done" /\ preset = "base"
    /\ Len(mb_config) = 2 /\ mb_config[1].s = 1 /\ mb_config[2].s = 2 /\ Len(skips) = 2

(* C4: a block adds its input to the projection result iff it was built     *)
(* with stride 1 and equal input and output channels; otherwise its output  *)
(* is the projection result alone. The decision is the same in every state  *)
(* after construction, whatever the number of forward passes.               *)
C4_ResidualShortcut ==
    Constructed =>
      /\ \A j \in RealEntries(mb_config) :
            modules[j].use_res_connect
               = (modules[j].stride = 1 /\ modules[j].inp = modules[j].oup)
      /\ InForward =>
           \A n \in ResultNodes :
              LET m == modules[graph[n].blk + 1]
              IN  IF m.stride = 1 /\ m.inp = m.oup
                  THEN \/ n = Len(graph) /\ pc = "error"
                       \/ /\ n < Len(graph)
                          /\ graph[n + 1].op = "add"
                          /\ graph[n + 1].a = graph[n].a
                          /\ graph[n + 1].b = n
                          /\ n + 1 = Len(graph) => x = n + 1
                  ELSE /\ \A q \in 1..Len(graph) : graph[q].op = "add" => graph[q].b # n
                       /\ n = Len(graph) => x = n /\ pc # "error"

C4_Witness ==
    /\ pc = "done"
    /\ \E n \in ResultNodes :
          /\ modules[graph[n].blk + 1].inp = 40 /\ modules[graph[n].blk + 1].oup = 40
          /\ modules[graph[n].blk + 1].stride = 1 /\ graph[n + 1].op = "add"
    /\ \E n \in ResultNodes :
          /\ modules[graph[n].blk + 1].inp = 40 /\ modules[graph[n].blk + 1].oup = 80
          /\ modules[graph[n].blk + 1].stride = 2 /\ graph[n + 1].op = "result"

(* C5: an "identity" entry becomes a passthrough module at its position; it *)
(* leaves the running channel count to the next entry unchanged; in a       *)
(* forward pass its output is the very tensor it was given and it causes no *)
(* capture.                                                                 *)
C5_IdentityPassthrough ==
    [][ /\ (pc = "new" /\ pc' = "built") =>
             \A j \in 1..Len(mb_config) :
                mb_config[j].id =>
                   /\ modules'[j].kind = "Identity"
                   /\ block_names'[j].idx = j - 1
                   /\ IF j < Len(mb_config)
                      THEN ~mb_config[j + 1].id =>
                              modules'[j + 1].inp
                                 = ChannelsBefore(mb_config, input_channel, j)
                      ELSE cbp'.inp = ChannelsBefore(mb_config, input_channel, j)
        /\ (pc \in {"loop", "exec"} /\ i <= Len(mb_config) /\ mb_config[i].id) =>
             /\ x' = x
             /\ graph' = graph
             /\ skips' = skips
             /\ pc' # "error"
      ]_vars

C5_Witness ==
    /\ preset = "base" /\ pc = "exec" /\ i = 2
    /\ mb_config[1].id /\ ~mb_config[2].id /\ x = 3

(* C6: a configuration with a non-identity entry of stride outside {1, 2}   *)
(* never yields a backbone: construction raises and no forward pass runs.   *)
C6_BadStrideFails ==
    (\E j \in RealEntries(mb_config) : mb_config[j].s \notin {1, 2})
       => pc \in {"new", "failed"} /\ graph = <<>>

C6_Witness ==
    /\ pc = "failed"
    /\ \E j \in RealEntries(mb_config) : mb_config[j].s = 3 /\ mb_config[j].k = 3

(* C7: a configuration with a non-identity entry whose kernel_size is even  *)
(* or not positive never yields a constructed backbone.                     *)
C7_BadKernelFails ==
    (\E j \in RealEntries(mb_config) : mb_config[j].k % 2 = 0 \/ mb_config[j].k <= 0)
       => pc \in {"new", "failed"}

(* C8: the spatial size a block of odd kernel_size and stride s gives for   *)
(* an input of size n is floor(n / s).                                      *)
C8_FloorDivision ==
    InForward =>
      \A n \in ResultNodes :
         LET m == modules[graph[n].blk + 1]
         IN  m.kernel_size % 2 = 1 =>
               /\ graph[n].h = graph[graph[n].a].h \div m.stride
               /\ graph[n].w = graph[graph[n].a].w \div m.stride

(* C8, amended: the spatial size is ceil(n / s) = floor((n - 1) / s) + 1,   *)
(* which is n for stride 1 and is floor(n / s) when s divides n.            *)
C8_CeilDivision ==
    InForward =>
      \A n \in ResultNodes :
         LET m == modules[graph[n].blk + 1]
             hin == graph[graph[n].a].h
             win == graph[graph[n].a].w
         IN  m.kernel_size % 2 = 1 =>
               /\ graph[n].h = ((hin - 1) \div m.stride) + 1
               /\ graph[n].w = ((win - 1) \div m.stride) + 1
               /\ m.stride = 1 => graph[n].h = hin /\ graph[n].w = win
               /\ hin % m.stride = 0 => graph[n].h = hin \div m.stride
               /\ win % m.stride = 0 => graph[n].w = win \div m.stride

C8_Witness ==
    \E n \in ResultNodes :
       /\ modules[graph[n].blk + 1].stride = 2
       /\ modules[graph[n].blk + 1].kernel_size = 3
       /\ graph[graph[n].a].h = 15 /\ graph[n].h = 8
       /\ graph[graph[n].a].w = 16 /\ graph[n].w = 8

(* C9: the first non-identity block is built on input_channel, every later  *)
(* one on the output_channels of the nearest non-identity entry before it,  *)
(* conv_before_pooling on the last running count and last_channel; in the   *)
(* presets every stage receives the channel count it was built for.         *)
C9_ChannelBookkeeping ==
    Constructed =>
      /\ \A j \in RealEntries(mb_config) :
            /\ modules[j].inp = ChannelsBefore(mb_config, input_channel, j)
            /\ modules[j].oup = mb_config[j].c
      /\ cbp.inp = ChannelsBefore(mb_config, input_channel, Len(mb_config) + 1)
      /\ cbp.oup = last_channel
      /\ preset # "base" =>
            /\ InForward => graph[3].op = "separable_conv" /\ graph[3].c = input_channel
            /\ pc # "error"
            /\ (pc = "exec" /\ ~mb_config[i].id) => graph[x].c = modules[i].inp
            /\ (pc = "loop" /\ i > Len(mb_config)) => graph[x].c = cbp.inp

C9_Witness ==
    /\ preset = "C" /\ pc = "exec" /\ i = 6
    /\ modules[6].inp = 40 /\ graph[x].c = 40

(* C10: on a 224 x 224 image each preset returns five tensors of            *)
(* (channels, size) (16, 112), (32, 56), (40, 28), (96, 14), (1280, 7).     *)
PresetPyramid ==
    << <<16, 112, 112>>, <<32, 56, 56>>, <<40, 28, 28>>, <<96, 14, 14>>, <<1280, 7, 7>> >>

C10_PresetPyramid ==
    (preset # "base" /\ On224) =>
       /\ Len(skips) <= 5
       /\ \A j \in 1..Len(skips) : Shape(skips[j]) = PresetPyramid[j]
       /\ pc = "done" => Len(skips) = 5

C10_Witness == preset = "C" /\ pc = "done" /\ On224 /\ Len(skips) = 5

====
